---------------------------- MODULE Spec2Model ----------------------------
(***************************************************************************)
(* A model of the message-board broker (mcp_server_simple.py), of the SDK  *)
(* client (message_sdk.py) and of the daemon's MessageProcessor, which all *)
(* share one SQLite store file.                                            *)
(*                                                                         *)
(* Text is modelled as sequences of one-character strings, so that the     *)
(* session prefix codec, the LIKE filter and the length floor of the       *)
(* retention pass are computed as the code computes them.  A nullable      *)
(* column or an optional argument is a set: {} is NULL / None, {x} is x.   *)
(***************************************************************************)
EXTENDS Integers, Sequences, FiniteSets, TLC

VARIABLES
    schema,     \* which columns the store file has (fixed when it was created)
    now,        \* int(time.time()), the wall clock in seconds
    messages,   \* table messages: a set of rows
    issued,     \* message ids uuid4 has handed out so far
    sentLog,    \* id -> what the send call was given and what it returned
    waiting,    \* table waiting_agents: a set of rows
    tasks,      \* table tasks: a set of rows
    taskIds,    \* task ids uuid4 has handed out so far
    calls,      \* one wait_for_message call per process: its locals
    processed,  \* MessageProcessor._processed_ids, per client
    ret,        \* the response of the operation that ran last
    delivered,  \* which operation has returned which row to which caller
    acked,      \* ids a mark_read has updated so far
    rpc,        \* the lines process 1 has read from stdin, the responses it wrote
    pool,       \* the ConnectionPool: len(_pool), _in_use, and per thread where
                \* it is in get_connection and how many connections it holds
    conns       \* the SDK client's connections: rows inserted and not yet
                \* committed on its pooled connection and on a connection
                \* it left open; the rows of batches that failed, the
                \* batch it was given last

vars == <<schema, now, messages, issued, sentLog, waiting, tasks, taskIds,
          calls, processed, ret, delivered, acked, rpc, conns, pool>>

-----------------------------------------------------------------------------
(* Bounds of the model.                                                    *)

MaxMsgs == 2        \* message rows ever inserted
MaxTicks == 1       \* clock advances
MaxTasks == 1       \* task rows ever inserted
WaitMsgs == 1       \* message rows in the wait protocol's runs
WaitTicks == 1      \* clock advances in the wait protocol's runs
SweepTicks == 2     \* clock advances in the sweeper's runs
NumProcs == 2       \* broker processes that may sit in wait_for_message
MaxLines == 2       \* lines the dispatcher reads from stdin
NumThreads == 3     \* threads that use the connection pool
MaxConnections == 1 \* ConnectionPool(max_connections=...)
MaxOpen == 3        \* connections that exist at a time

(* Program constants.                                                      *)

LengthFloor == 20       \* cleanup_messages: length(content) < 20
RetentionSecs == 3600   \* cleanup_messages: cutoff = now - 3600
UuidLen == 36           \* len(str(uuid.uuid4()))

Null == {}
Some(x) == {x}
Val(o) == CHOOSE x \in o : TRUE

-----------------------------------------------------------------------------
(* Text.                                                                   *)

Chr(s) == <<s>>

\* Python's truth value of an optional string: None and "" are false.
Truthy(o) == o # Null /\ o # Some(<<>>)

\* The literal "[session:" (9 characters).
PrefixLit == <<"[", "s", "e", "s", "s", "i", "o", "n", ":">>

StartsWith(s, p) ==
    Len(s) >= Len(p) /\ SubSeq(s, 1, Len(p)) = p

\* str.strip() over the white space the model's texts use.
IsSpace(c) == c = " "

RECURSIVE LStrip(_)
LStrip(s) ==
    IF s # <<>> /\ IsSpace(Head(s)) THEN LStrip(Tail(s)) ELSE s

RECURSIVE RStrip(_)
RStrip(s) ==
    IF s # <<>> /\ IsSpace(s[Len(s)])
    THEN RStrip(SubSeq(s, 1, Len(s) - 1))
    ELSE s

Strip(s) == RStrip(LStrip(s))

\* SQLite's LIKE folds ASCII case; the model's texts use these capitals.
Fold(c) ==
    CASE c = "A" -> "a"
      [] c = "B" -> "b"
      [] c = "S" -> "s"
      [] OTHER -> c

\* x LIKE p of SQLite: % matches any run, _ any one character, no escape.
\* LikeFrom(p, s, i, j): p from position i matches s from position j.
RECURSIVE LikeFrom(_, _, _, _)
LikeFrom(p, s, i, j) ==
    IF i > Len(p) THEN j > Len(s)
    ELSE IF p[i] = "%"
         THEN LikeFrom(p, s, i + 1, j) \/ (j <= Len(s) /\ LikeFrom(p, s, i, j + 1))
         ELSE /\ j <= Len(s)
              /\ (p[i] = "_" \/ Fold(p[i]) = Fold(s[j]))
              /\ LikeFrom(p, s, i + 1, j + 1)
LikeMatch(p, s) == LikeFrom(p, s, 1, 1)

\* f"%[session:{session_id}]%"
SessionPattern(tag) == <<"%">> \o PrefixLit \o tag \o <<"]", "%">>

\* content LIKE '%[session:<tag>]%'
SessionMatches(tag, content) == LikeMatch(SessionPattern(tag), content)

-----------------------------------------------------------------------------
(* The session prefix codec.                                               *)

\* send_message: f"[session:{session_id}] {content}"
Encode(tag, content) == PrefixLit \o tag \o <<"]", " ">> \o content

\* str(uuid.uuid4()) as a session tag: 36 characters nobody else writes.
FreshTag(n) == [i \in 1..UuidLen |-> IF i <= n THEN "f" ELSE "0"]

\* The decode of read_messages and wait_for_message: the tag runs from
\* position 9 to the first "]", the content starts two characters after it
\* and is stripped of white space; a row that does not start with the
\* literal, or has no "]", is returned as it is with no tag.
Decode(content) ==
    IF StartsWith(content, PrefixLit) /\ \E i \in 1..Len(content) : content[i] = "]"
    THEN LET e == CHOOSE i \in 1..Len(content) :
                      /\ content[i] = "]"
                      /\ \A j \in 1..(i - 1) : content[j] # "]"
         IN [session_id |-> Some(SubSeq(content, Len(PrefixLit) + 1, e - 1)),
             content |-> Strip(SubSeq(content, e + 2, Len(content)))]
    ELSE [session_id |-> Null, content |-> content]


-----------------------------------------------------------------------------
(* The store.                                                              *)

\* "startup": the file was created by the broker's main(), with the columns
\* its CREATE TABLE statements name.  "full": the file existed before and
\* has every column the handlers name (the broker never alters a table).
Schemas == {"startup", "full"}
HasAllColumns == schema = "full"

MsgIds == 1..MaxMsgs
TaskIds == 1..MaxTasks
Procs == 1..NumProcs

\* A clock advance: a second, or just over the retention window.
LongStep == RetentionSecs + 1
ClockSteps == {1, LongStep}
\* int(time.time()) is positive; the runs start at second Epoch.
Epoch == 1
TicksUsed == ((now - Epoch) \div LongStep) + ((now - Epoch) % LongStep)

IdsOf(rows) == {r.id : r \in rows}
RowOf(rows, id) == CHOOSE r \in rows : r.id = id

\* All orders of `rows` by timestamp (ascending, or descending), cut to
\* `limit` rows: ORDER BY timestamp [ASC|DESC] LIMIT ?.  Rows of one
\* timestamp come in any order.
OrderedPrefixes(rows, limit, asc) ==
    LET n == Cardinality(rows)
        k == IF limit < n THEN limit ELSE n
        perms == {f \in [1..n -> rows] : \A i, j \in 1..n : i # j => f[i] # f[j]}
        sorted == {f \in perms : \A i \in 1..(n - 1) :
                      IF asc THEN f[i].timestamp <= f[i + 1].timestamp
                             ELSE f[i].timestamp >= f[i + 1].timestamp}
    IN {SubSeq(f, 1, k) : f \in sorted}

\* What a handler returns of a row after decoding its session prefix.
View(row) ==
    [id |-> row.id, sender |-> row.sender, content |-> Decode(row.content).content,
     session_id |-> Decode(row.content).session_id, read |-> row.read,
     timestamp |-> row.timestamp]

\* What the SDK and the processor return of a row: the stored content.
RawView(row) ==
    [id |-> row.id, sender |-> row.sender, content |-> row.content,
     session_id |-> Null, read |-> row.read, timestamp |-> row.timestamp]

Views(q) == [i \in 1..Len(q) |-> View(q[i])]
RawViews(q) == [i \in 1..Len(q) |-> RawView(q[i])]
Range(q) == {q[i] : i \in 1..Len(q)}

\* A response: the operation, who called it, the session filter it was given,
\* the rows in it and the count it reports.
Response(op, caller, status, rows) ==
    [op |-> op, caller |-> caller, status |-> status, rows |-> rows,
     count |-> Len(rows), filter |-> Null]
Counted(op, caller, status, n) ==
    [op |-> op, caller |-> caller, status |-> status, rows |-> << >>, count |-> n,
     filter |-> Null]
Filtered(resp, session) == [resp EXCEPT !.filter = session]

\* The record of rows handed to a caller, by a wait or by a listing read.
Delivery(op, to, rows) ==
    {[by |-> IF op = "wait_for_message" THEN "wait" ELSE "read", to |-> to,
      id |-> r.id] : r \in Range(rows)}

NoCall ==
    [pc |-> "idle", client_id |-> "", session |-> Null, last_seen |-> Null,
     timeout |-> 0, start_time |-> 0, checked_ids |-> {}, request |-> Null]

Init ==
    /\ schema \in Schemas
    /\ now = Epoch
    /\ messages = {}
    /\ issued = {}
    /\ sentLog = << >>
    /\ waiting = {}
    /\ tasks = {}
    /\ taskIds = {}
    /\ calls = [p \in Procs |-> NoCall]
    /\ processed = << >>
    /\ ret = Response("none", "", "ok", << >>)
    /\ delivered = {}
    /\ acked = {}
    /\ rpc = [lines |-> << >>, out |-> << >>]
    /\ conns = [pending |-> {}, leaked |-> Null, failed |-> {}, asked |-> << >>]
    /\ pool = [free |-> MaxConnections, in_use |-> 0,
               pc |-> [t \in 1..NumThreads |-> "idle"],
               held |-> [t \in 1..NumThreads |-> 0]]

Tick(d, cap) ==
    /\ TicksUsed < cap
    /\ now' = now + d
    /\ UNCHANGED <<pool, conns, rpc, schema, messages, issued, sentLog, waiting, tasks, taskIds,
                   calls, processed, ret, delivered, acked>>

-----------------------------------------------------------------------------
(* Message service of the broker.                                          *)

\* send_message: a fresh uuid, the session given or a fresh one, the
\* content stored behind the session prefix, read = 0.
SendMessageCall(id, sender, content, session, priority) ==
    /\ id \notin issued
    /\   LET tag == IF Truthy(session) THEN Val(session) ELSE FreshTag(id)
             row == [id |-> id, sender |-> sender, content |-> Encode(tag, content),
                     timestamp |-> now, read |-> FALSE, priority |-> priority]
         IN /\ messages' = messages \cup {row}
            /\ issued' = issued \cup {id}
            /\ sentLog' = sentLog @@ (id :> [sender |-> sender, content |-> content,
                                             session |-> Some(tag), asked |-> session])
            /\ ret' = Response("send_message", sender, "ok", <<View(row)>>)
    /\ UNCHANGED <<pool, conns, schema, now, waiting, tasks, taskIds, calls, processed,
                   delivered, acked>>

\* send_message called as a function of the module, priority left at its
\* default.
SendMessage(id, sender, content, session) ==
    SendMessageCall(id, sender, content, session, "normal") /\ UNCHANGED rpc

\* cleanup_messages: three DELETEs in one transaction.
CleanupShort(rows) == {m \in rows : ~(Len(m.content) < LengthFloor)}
CleanupDuplicates(rows) ==
    {m \in rows : \A o \in rows :
        (o.content = m.content /\ o.sender = m.sender) => o.id <= m.id}
CleanupOld(rows, t) == {m \in rows : ~(m.timestamp < t - RetentionSecs)}
CleanupStamping(rows, t) ==
    {[m EXCEPT !.timestamp = t] : m \in CleanupOld(CleanupDuplicates(CleanupShort(rows)), t)}
CleanupWithoutOld(rows, t) == CleanupDuplicates(CleanupShort(rows))
Cleanup(rows, t) == CleanupOld(CleanupDuplicates(CleanupShort(rows)), t)

\* The WHERE clause of read_messages.
ReadFilter(rows, unread_only, sender, session) ==
    {m \in rows :
        /\ unread_only => ~m.read
        /\ sender # "" => m.sender = sender
        /\ Truthy(session) => SessionMatches(Val(session), m.content)}

\* read_messages: retention first, then the filtered rows, newest first.
\* `caller` is the agent that sent the request; the handler is not told it.
\* A store error in a statement of cleanup_messages leaves the function
\* before its commit: the transaction is rolled back and read_messages
\* raises.
ReadMessages(caller, unread_only, limit, sender, session) ==
    /\ LET op == IF unread_only THEN "read_unread_only" ELSE "read_messages"
       IN \E storeOk \in BOOLEAN :
            IF storeOk
            THEN /\ messages' = Cleanup(messages, now)
                 /\ \E q \in OrderedPrefixes(ReadFilter(messages', unread_only, sender,
                                                        session), limit, FALSE) :
                      /\ ret' = Filtered(Response(op, caller, "ok", Views(q)), session)
                      /\ delivered' = delivered \cup Delivery(op, caller, q)
            ELSE /\ ret' = Filtered(Response(op, caller, "raised", << >>), session)
                 /\ UNCHANGED <<messages, delivered>>
    /\ UNCHANGED <<pool, conns, rpc, schema, now, issued, sentLog, waiting, tasks, taskIds, calls,
                   processed, acked>>

\* UPDATE messages SET read = 1 WHERE id IN (...)
SetReadOnAll(rows, ids) == {[m EXCEPT !.read = TRUE] : m \in rows}
SetReadFlipping(rows, ids) ==
    {IF m.id \in ids THEN [m EXCEPT !.read = ~m.read] ELSE m : m \in rows}
SetRead(rows, ids) ==
    {IF m.id \in ids THEN [m EXCEPT !.read = TRUE] ELSE m : m \in rows}

\* mark_read of the broker.
MarkRead(caller, ids) ==
    /\ messages' = SetRead(messages, ids)
    /\ acked' = acked \cup (ids \cap IdsOf(messages))
    /\ ret' = Counted("mark_read", caller, "ok", Cardinality(ids \cap IdsOf(messages)))
    /\ UNCHANGED <<pool, conns, rpc, schema, now, issued, sentLog, waiting, tasks, taskIds, calls,
                   processed, delivered>>


-----------------------------------------------------------------------------
(* Waiting registry.                                                       *)

\* f"wait_{client_id}_{now}": the text determines the pair.
WaitingId(agent, t) == <<agent, t>>

\* INSERT OR REPLACE under PRIMARY KEY (id) and UNIQUE (agent_id): the rows
\* that conflict on either are deleted, then the row is inserted.
UpsertOnIdOnly(rows, row) ==
    {r \in rows : r.id # row.id} \cup {row}
Upsert(rows, row) ==
    {r \in rows : r.id # row.id /\ r.agent_id # row.agent_id} \cup {row}

\* DELETE FROM waiting_agents WHERE agent_id = ?
DeleteAgent(rows, agent) == {r \in rows : r.agent_id # agent}

\* The row wait_for_message writes at entry.
WaitRow(agent, status, task, t) ==
    [id |-> WaitingId(agent, t), agent_id |-> agent, waiting_since |-> t,
     status |-> status, current_task_id |-> task, heartbeat |-> Some(t),
     is_online |-> TRUE, last_disconnect |-> Null]

\* The row register_waiting writes: the columns it does not name take
\* their defaults.
RegisterRow(agent, status, t) ==
    [id |-> WaitingId(agent, t), agent_id |-> agent, waiting_since |-> t,
     status |-> status, current_task_id |-> Null, heartbeat |-> Null,
     is_online |-> TRUE, last_disconnect |-> Null]

\* UPDATE tasks SET progress = ?, updated_at = ? WHERE id = ?
SetProgress(rows, task, progress, t) ==
    {IF Some(r.id) = task THEN [r EXCEPT !.progress = progress, !.updated_at = t]
     ELSE r : r \in rows}

\* register_waiting: fails on a store without the status column.
RegisterWaiting(agent, status) ==
    /\ IF HasAllColumns
       THEN /\ waiting' = Upsert(waiting, RegisterRow(agent, status, now))
            /\ ret' = Counted("register_waiting", agent, "ok", 1)
       ELSE /\ waiting' = waiting
            /\ ret' = Counted("register_waiting", agent, "error", 0)
    /\ UNCHANGED <<pool, conns, rpc, schema, now, messages, issued, sentLog, tasks, taskIds, calls,
                   processed, delivered, acked>>

\* unregister_waiting
UnregisterWaiting(agent) ==
    /\ waiting' = DeleteAgent(waiting, agent)
    /\ ret' = Counted("unregister_waiting", agent, "ok",
                      Cardinality({r \in waiting : r.agent_id = agent}))
    /\ UNCHANGED <<pool, conns, rpc, schema, now, messages, issued, sentLog, tasks, taskIds, calls,
                   processed, delivered, acked>>

\* heartbeat: writes heartbeat and current_task_id of the agent's row, and
\* the task's progress when both task_id and progress are given.
HeartbeatCall(agent, task, progress) ==
    /\ IF HasAllColumns
       THEN /\ waiting' = {IF r.agent_id = agent
                           THEN [r EXCEPT !.heartbeat = Some(now),
                                          !.current_task_id = task]
                           ELSE r : r \in waiting}
            /\ tasks' = IF task # Null /\ progress # Null
                        THEN SetProgress(tasks, task, Val(progress), now)
                        ELSE tasks
            /\ ret' = Counted("heartbeat", agent, "ok", 0)
       ELSE /\ UNCHANGED <<waiting, tasks>>
            /\ ret' = Counted("heartbeat", agent, "error", 0)
    /\ UNCHANGED <<pool, conns, schema, now, messages, issued, sentLog, taskIds, calls,
                   processed, delivered, acked>>

\* heartbeat called as a function of the module.
Heartbeat(agent, task, progress) ==
    HeartbeatCall(agent, task, progress) /\ UNCHANGED rpc

\* report_status: writes status and waiting_since of the agent's row, and
\* the task's status when task_id is given (working -> running, else
\* pending).
ReportStatus(agent, status, task) ==
    /\ IF HasAllColumns
       THEN /\ waiting' = {IF r.agent_id = agent
                           THEN [r EXCEPT !.status = status, !.waiting_since = now]
                           ELSE r : r \in waiting}
            /\ tasks' = IF task # Null
                        THEN {IF Some(r.id) = task
                              THEN [r EXCEPT !.status = IF status = "working"
                                                        THEN "running" ELSE "pending"]
                              ELSE r : r \in tasks}
                        ELSE tasks
            /\ ret' = Counted("report_status", agent, "ok", 0)
       ELSE /\ UNCHANGED <<waiting, tasks>>
            /\ ret' = Counted("report_status", agent, "error", 0)
    /\ UNCHANGED <<pool, conns, rpc, schema, now, messages, issued, sentLog, taskIds, calls,
                   processed, delivered, acked>>

-----------------------------------------------------------------------------
(* The responses of the dispatcher.                                        *)

ParseError == -32700
MethodNotFound == -32601
InvalidParams == -32602
InternalError == -32603

\* A response line: the id, "result" or "error" with its code; payload is
\* what the handler returned, raised tells that a handler exception was
\* turned into the error.
ErrorReply(id, code, raised) ==
    [id |-> id, kind |-> "error", code |-> code, payload |-> "", raised |-> raised]
ResultReply(id, payload) ==
    [id |-> id, kind |-> "result", code |-> 0, payload |-> payload, raised |-> FALSE]

\* call_tool around a handler that was found: its return value as a result,
\* its exception as -32603; process_request then copies the request's id.
ToolReplyHidingErrors(id, outcome) == ResultReply(id, outcome.status)
ToolReply(id, outcome) ==
    IF outcome.status \in {"raised", "error"}
    THEN ErrorReply(id, InternalError, TRUE)
    ELSE ResultReply(id, outcome.status)

\* What stdout holds after a call of process p returned `outcome`: the
\* response to the tools/call line that made the call, if a line made it.
Replied(p, outcome) ==
    IF calls[p].request = Null THEN rpc
    ELSE [rpc EXCEPT !.out = Append(@, ToolReply(Val(calls[p].request).id, outcome))]

-----------------------------------------------------------------------------
(* The blocking wait.                                                      *)

\* while time.time() - start_time < timeout
InTime(p) == now - calls[p].start_time < calls[p].timeout

\* The WHERE clause of one poll.
Candidates(rows, client, session, last_seen, checked) ==
    {m \in rows :
        /\ ~m.read
        /\ client # "" => m.sender # client
        /\ Truthy(session) => SessionMatches(Val(session), m.content)
        /\ (last_seen # Null /\ Val(last_seen) # 0) => m.timestamp > Val(last_seen)
        /\ m.id \notin checked}

\* ORDER BY timestamp ASC LIMIT 1
Earliest(rows) == {m \in rows : \A o \in rows : m.timestamp <= o.timestamp}

CandidatesOf(p) ==
    Candidates(messages, calls[p].client_id, calls[p].session, calls[p].last_seen,
               calls[p].checked_ids)

\* The finally block: unregister_waiting if a client_id was given; a store
\* error in it is swallowed.
AfterUnregister(rows, client, storeOk) ==
    IF client # "" /\ storeOk THEN DeleteAgent(rows, client) ELSE rows

\* Entry: the registration (its store error, and a missing column, are
\* swallowed), start_time, an empty checked_ids.
WaitBegin(p, client, session, last_seen, timeout, status, task, progress, request) ==
    /\ calls[p].pc = "idle"
    /\ \E storeOk \in BOOLEAN :
         IF client # "" /\ storeOk /\ HasAllColumns
         THEN /\ waiting' = Upsert(waiting, WaitRow(client, status, task, now))
              /\ tasks' = IF task # Null /\ progress # Null
                          THEN SetProgress(tasks, task, Val(progress), now)
                          ELSE tasks
         ELSE UNCHANGED <<waiting, tasks>>
    /\ calls' = [calls EXCEPT ![p] =
                    [pc |-> "polling", client_id |-> client, session |-> session,
                     last_seen |-> last_seen, timeout |-> timeout,
                     start_time |-> now, checked_ids |-> {}, request |-> request]]
    /\ UNCHANGED <<pool, conns, schema, now, messages, issued, sentLog, taskIds, processed,
                   ret, delivered, acked>>

\* wait_for_message called as a function of the module.
WaitEnter(p, client, session, last_seen, timeout, status, task, progress) ==
    /\ WaitBegin(p, client, session, last_seen, timeout, status, task, progress, Null)
    /\ UNCHANGED rpc

\* What a hit does to the messages table: nothing (no UPDATE, no DELETE
\* between the SELECT and the return).
HitEffectClaiming(rows, row) == SetRead(rows, {row.id})
HitEffect(rows, row) == rows

\* A poll that finds a row: the row is added to checked_ids and returned
\* decoded; the finally block runs.  (A poll that finds none sleeps and
\* changes nothing.)
WaitHit(p) ==
    /\ calls[p].pc = "polling"
    /\ InTime(p)
    /\ \E row \in Earliest(CandidatesOf(p)), unregOk \in BOOLEAN :
         /\ ret' = Filtered(Response("wait_for_message", calls[p].client_id, "hit",
                                      <<View(row)>>), calls[p].session)
         /\ delivered' = delivered \cup
                             Delivery("wait_for_message", calls[p].client_id, <<row>>)
         /\ waiting' = AfterUnregister(waiting, calls[p].client_id, unregOk)
         /\ messages' = HitEffect(messages, row)
    /\ rpc' = Replied(p, ret')
    /\ calls' = [calls EXCEPT ![p] = NoCall]
    /\ UNCHANGED <<pool, conns, schema, now, issued, sentLog, tasks, taskIds,
                   processed, acked>>

\* A poll whose store access fails: the error leaves the loop, the finally
\* block runs, the call raises.
WaitRaise(p) ==
    /\ calls[p].pc = "polling"
    /\ InTime(p)
    /\ \E unregOk \in BOOLEAN :
         waiting' = AfterUnregister(waiting, calls[p].client_id, unregOk)
    /\ ret' = Response("wait_for_message", calls[p].client_id, "raised", << >>)
    /\ rpc' = Replied(p, ret')
    /\ calls' = [calls EXCEPT ![p] = NoCall]
    /\ UNCHANGED <<pool, conns, schema, now, messages, issued, sentLog, tasks, taskIds,
                   processed, delivered, acked>>

\* The loop condition fails: the timeout result, after the finally block.
WaitTimeout(p) ==
    /\ calls[p].pc = "polling"
    /\ ~InTime(p)
    /\ \E unregOk \in BOOLEAN :
         waiting' = AfterUnregister(waiting, calls[p].client_id, unregOk)
    /\ ret' = Response("wait_for_message", calls[p].client_id, "timeout", << >>)
    /\ rpc' = Replied(p, ret')
    /\ calls' = [calls EXCEPT ![p] = NoCall]
    /\ UNCHANGED <<pool, conns, schema, now, messages, issued, sentLog, tasks, taskIds,
                   processed, delivered, acked>>


-----------------------------------------------------------------------------
(* The SDK client and the daemon's processor, on the same store file.      *)

ProcessorLimit == 100   \* get_new_messages: get_messages(unread_only=True, limit=100)

IsBlank(content) == Strip(content) = <<>>

\* valid_priorities = ['normal', 'high', 'urgent']
ValidPriorities == {"normal", "high", "urgent"}

\* MessageBoardClient.send: validation, then the content stored as given
\* (no session prefix) with sender = client_id.  The INSERT names the
\* metadata column.
\* A connection the client left open holds the store's write lock while it
\* has rows inserted and not committed: another connection's INSERT fails
\* with "database is locked".
Locked == conns.leaked # Null

\* ConnectionContext.__exit__ on an exception: rollback, then the connection
\* goes back to the pool.
RolledBackKeeping(pending) == pending
RolledBack(pending) == {}

\* conn.commit() on the pooled connection: the rows inserted on it since
\* its last commit or rollback reach the table.
Committed(rows, new) == rows \cup conns.pending \cup new

SdkSendCall(id, client, content, priority) ==
    /\ id \notin issued
    /\ IF IsBlank(content) \/ priority \notin ValidPriorities
       THEN /\ ret' = Counted("sdk_send", client, "validation_error", 0)
            /\ UNCHANGED <<messages, issued, sentLog, conns>>
       ELSE IF ~HasAllColumns \/ Locked
       THEN /\ ret' = Counted("sdk_send", client, "error", 0)
            /\ conns' = [conns EXCEPT !.pending = RolledBack(@)]
            /\ UNCHANGED <<messages, issued, sentLog>>
       ELSE   LET row == [id |-> id, sender |-> client, content |-> content,
                          timestamp |-> now, read |-> FALSE, priority |-> priority]
              IN /\ messages' = Committed(messages, {row})
                 /\ conns' = [conns EXCEPT !.pending = {}]
                 /\ issued' = issued \cup {id}
                 /\ sentLog' = sentLog @@ (id :> [sender |-> client, content |-> content,
                                                  session |-> Null, asked |-> Null])
                 /\ ret' = Response("sdk_send", client, "ok", <<RawView(row)>>)
    /\ UNCHANGED <<pool, rpc, schema, now, waiting, tasks, taskIds, calls, processed,
                   delivered, acked>>

\* send with priority left at its default.
SdkSend(id, client, content) == SdkSendCall(id, client, content, "normal")

\* An element of a batch: a mapping with or without the key content, or
\* something that is no mapping.
ElemOk(e) == e.kind = "mapping" /\ e.content # Null /\ ~IsBlank(Val(e.content))

\* The first element at which the loop of send_batch raises, 0 if none:
\* the element does not validate, or its INSERT fails (the store fails at
\* element faultAt, the table lacks a column the INSERT names, the store is
\* locked).
FirstFailure(batch, faultAt) ==
    LET bad == {k \in 1..Len(batch) :
                   ~ElemOk(batch[k]) \/ k = faultAt \/ ~HasAllColumns \/ Locked}
    IN IF bad = {} THEN 0 ELSE CHOOSE k \in bad : \A o \in bad : k <= o

\* The rows of the first n elements, all with the timestamp taken before the
\* loop and the priority left at its default.
BatchRows(ids, client, batch, n) ==
    [i \in 1..n |-> [id |-> ids[i], sender |-> client, content |-> Val(batch[i].content),
                     timestamp |-> now, read |-> FALSE, priority |-> "normal"]]

\* MessageBoardClient.send_batch: an empty list returns at once; else one
\* connection (pooled or opened for the call), one INSERT per element, one
\* commit after the loop.  An exception in the loop leaves through
\* ConnectionContext in pooled mode; in direct mode the connection is
\* neither rolled back nor closed.
SdkSendBatch(ids, client, batch, pooled, faultAt) ==
    /\ Len(ids) = Len(batch)
    /\ \A i \in 1..Len(ids) : ids[i] \notin issued /\ \A j \in 1..Len(ids) : i # j => ids[i] # ids[j]
    /\ LET f == FirstFailure(batch, faultAt)
           n == IF f = 0 THEN Len(batch) ELSE f - 1
           rows == BatchRows(ids, client, batch, n)
       IN /\ issued' = issued \cup {ids[i] : i \in 1..n}
          /\ IF f = 0
             THEN /\ messages' = IF pooled THEN Committed(messages, Range(rows))
                                 ELSE messages \cup Range(rows)
                  /\ conns' = [conns EXCEPT !.pending = IF pooled /\ batch # << >> THEN {} ELSE @,
                                            !.asked = batch]
                  /\ sentLog' = sentLog @@ [id \in IdsOf(Range(rows)) |->
                                    [sender |-> client, content |-> RowOf(Range(rows), id).content,
                                     session |-> Null, asked |-> Null]]
                  /\ ret' = Response("sdk_send_batch", client, "ok", RawViews(rows))
             ELSE /\ conns' = [conns EXCEPT
                                 !.pending = IF pooled THEN RolledBack(@ \cup Range(rows)) ELSE @,
                                 !.leaked = IF ~pooled /\ n > 0 THEN Some(Range(rows)) ELSE @,
                                 !.failed = @ \cup {[id |-> r.id, pooled |-> pooled] :
                                                      r \in Range(rows)},
                                 !.asked = batch]
                  /\ ret' = Counted("sdk_send_batch", client, "error", 0)
                  /\ UNCHANGED <<messages, sentLog>>
    /\ UNCHANGED <<pool, rpc, schema, now, waiting, tasks, taskIds, calls, processed,
                   delivered, acked>>

\* The connection a failed direct-mode batch left open is closed when it is
\* collected: its transaction is rolled back and the lock released.
Collect ==
    /\ conns.leaked # Null
    /\ conns' = [conns EXCEPT !.leaked = Null]
    /\ UNCHANGED <<pool, rpc, schema, now, messages, issued, sentLog, waiting, tasks, taskIds,
                   calls, processed, ret, delivered, acked>>

\* MessageBoardClient.read_unread: WHERE read = 0 AND sender != client_id
\* ORDER BY timestamp ASC LIMIT ?; no retention pass, no decoding.
SdkUnreadOfAll(rows, client) == {m \in rows : ~m.read}
SdkUnread(rows, client) == {m \in rows : ~m.read /\ m.sender # client}

SdkReadUnread(client, limit) ==
    /\ IF HasAllColumns
       THEN \E q \in OrderedPrefixes(SdkUnread(messages, client), limit, TRUE) :
              /\ ret' = Response("sdk_read_unread", client, "ok", RawViews(q))
              /\ delivered' = delivered \cup Delivery("sdk_read_unread", client, q)
       ELSE /\ ret' = Counted("sdk_read_unread", client, "error", 0)
            /\ UNCHANGED delivered
    /\ UNCHANGED <<pool, conns, rpc, schema, now, messages, issued, sentLog, waiting, tasks, taskIds,
                   calls, processed, acked>>

\* MessageBoardClient.mark_read: an empty list returns 0 at once.
SdkMarkRead(client, ids) ==
    /\ messages' = SetRead(messages, ids)
    /\ acked' = acked \cup (ids \cap IdsOf(messages))
    /\ ret' = Counted("sdk_mark_read", client, "ok", Cardinality(ids \cap IdsOf(messages)))
    /\ UNCHANGED <<pool, conns, rpc, schema, now, issued, sentLog, waiting, tasks, taskIds, calls,
                   processed, delivered>>

ProcessedOf(client) ==
    IF client \in DOMAIN processed THEN processed[client] ELSE {}

\* MessageProcessor.get_new_messages: the unread rows, newest first, less
\* the client's own and those it has returned before.  Database() indexes
\* messages(session_id), so it cannot open a store without that column.
\* (_processed_ids is cut at 1000 entries, beyond the rows of the model.)
NewFor(q, client) ==
    SelectSeq(q, LAMBDA m : m.sender # client /\ m.id \notin ProcessedOf(client))

GetNewMessages(client) ==
    /\ IF HasAllColumns
       THEN \E q \in OrderedPrefixes({m \in messages : ~m.read}, ProcessorLimit, FALSE) :
              /\ ret' = Response("get_new_messages", client, "ok",
                                 RawViews(NewFor(q, client)))
              /\ delivered' = delivered \cup
                                  Delivery("get_new_messages", client, NewFor(q, client))
              /\ processed' = [c \in DOMAIN processed \cup {client} |->
                                  IF c = client
                                  THEN ProcessedOf(client) \cup IdsOf(Range(NewFor(q, client)))
                                  ELSE processed[c]]
       ELSE /\ ret' = Counted("get_new_messages", client, "error", 0)
            /\ UNCHANGED <<processed, delivered>>
    /\ UNCHANGED <<pool, conns, rpc, schema, now, messages, issued, sentLog, waiting, tasks, taskIds,
                   calls, acked>>

-----------------------------------------------------------------------------
(* Task service.                                                           *)

TaskStatuses == {"pending", "running", "completed", "failed"}

\* create_task: status pending, the other columns at their defaults.
CreateTask(id, assigned_to, created_by) ==
    /\ id \notin taskIds
    /\   /\ tasks' = tasks \cup
               {[id |-> id, status |-> "pending", assigned_to |-> assigned_to,
                 created_by |-> created_by, progress |-> 0, result |-> Null,
                 completed_at |-> Null, error_message |-> Null,
                 created_at |-> now, updated_at |-> now]}
         /\ taskIds' = taskIds \cup {id}
         /\ ret' = Counted("create_task", created_by, "ok", 1)
    /\ UNCHANGED <<pool, conns, rpc, schema, now, messages, issued, sentLog, waiting, calls,
                   processed, delivered, acked>>

\* The row update_task of the broker writes: status if given, completed_at
\* only when the status given is "completed", result if given, updated_at
\* if anything was given.
BrokerUpdated(r, status, result, t) ==
    [r EXCEPT !.status = IF status # Null THEN Val(status) ELSE @,
              !.completed_at = IF status = Some("completed") THEN Some(t) ELSE @,
              !.result = IF result # Null THEN result ELSE @,
              !.updated_at = IF status # Null \/ result # Null THEN t ELSE @]

\* update_task of the broker; on a store without the completed_at column
\* the statement that names it fails.
UpdateTask(caller, task, status, result) ==
    /\ IF status = Some("completed") /\ ~HasAllColumns
       THEN /\ tasks' = tasks
            /\ ret' = Counted("update_task", caller, "error", 0)
       ELSE /\ tasks' = {IF r.id = task THEN BrokerUpdated(r, status, result, now)
                         ELSE r : r \in tasks}
            /\ ret' = Counted("update_task", caller, "ok",
                              IF status # Null \/ result # Null
                              THEN Cardinality({r \in tasks : r.id = task}) ELSE 0)
    /\ UNCHANGED <<pool, conns, rpc, schema, now, messages, issued, sentLog, waiting, taskIds, calls,
                   processed, delivered, acked>>

\* The row MessageBoardClient.update_task writes: never completed_at.
SdkUpdated(r, status, result, t) ==
    [r EXCEPT !.status = IF status # Null THEN Val(status) ELSE @,
              !.result = IF result # Null THEN result ELSE @,
              !.updated_at = IF status # Null \/ result # Null THEN t ELSE @]

SdkUpdateTask(caller, task, status, result) ==
    /\ tasks' = {IF r.id = task THEN SdkUpdated(r, status, result, now)
                 ELSE r : r \in tasks}
    /\ ret' = Counted("sdk_update_task", caller, "ok",
                      IF status # Null \/ result # Null
                      THEN Cardinality({r \in tasks : r.id = task}) ELSE 0)
    /\ UNCHANGED <<pool, conns, rpc, schema, now, messages, issued, sentLog, waiting, taskIds, calls,
                   processed, delivered, acked>>


\* cancel_task: status failed, the error message and completed_at, whatever
\* the status was; the statement names error_message and completed_at.
Cancelled(r, t) ==
    [r EXCEPT !.status = "failed", !.error_message = Some("cancelled"),
              !.completed_at = Some(t)]

CancelTask(caller, task) ==
    /\ IF HasAllColumns
       THEN /\ tasks' = {IF r.id = task THEN Cancelled(r, now) ELSE r : r \in tasks}
            /\ ret' = Counted("cancel_task", caller, "ok",
                              Cardinality({r \in tasks : r.id = task}))
       ELSE /\ tasks' = tasks
            /\ ret' = Counted("cancel_task", caller, "error", 0)
    /\ UNCHANGED <<pool, conns, rpc, schema, now, messages, issued, sentLog, waiting, taskIds, calls,
                   processed, delivered, acked>>

-----------------------------------------------------------------------------
(* Liveness sweeper.                                                       *)

\* WHERE heartbeat < now - timeout_seconds (never true of a NULL heartbeat)
Stale(rows, t, d) == {r \in rows : r.heartbeat # Null /\ Val(r.heartbeat) < t - d}

\* UPDATE waiting_agents SET is_online = 0, last_disconnect = ?
MarkedOffline(r, t) == [r EXCEPT !.is_online = FALSE, !.last_disconnect = Some(t)]

\* UPDATE tasks SET status = 'failed', error_message = ..., completed_at = ?
\* WHERE id = ? AND status = 'running'
SweptWithoutStamp(r, t) ==
    [r EXCEPT !.status = "failed", !.error_message = Some("offline")]
Swept(r, t) ==
    [r EXCEPT !.status = "failed", !.error_message = Some("offline"),
              !.completed_at = Some(t)]

\* What check_offline_agents returns: timestamp, the agents of the stale
\* rows, the tasks that are pending or failed after its updates; with it,
\* the timeout_seconds it was called with.
SweepResultBeforeUpdates(caller, d, stale, after) ==
    [op |-> "check_offline_agents", caller |-> caller, status |-> "ok",
     rows |-> << >>, count |-> Cardinality(stale), filter |-> Null,
     timeout_seconds |-> d, timestamp |-> now,
     offline_agents |-> {r.agent_id : r \in stale},
     unassigned_tasks |-> {k.id : k \in {x \in tasks : x.status \in {"pending", "failed"}}}]
SweepResult(caller, d, stale, after) ==
    [op |-> "check_offline_agents", caller |-> caller, status |-> "ok",
     rows |-> << >>, count |-> Cardinality(stale), filter |-> Null,
     timeout_seconds |-> d, timestamp |-> now,
     offline_agents |-> {r.agent_id : r \in stale},
     unassigned_tasks |-> {k.id : k \in {x \in after : x.status \in {"pending", "failed"}}}]

\* check_offline_agents: one transaction over the stale rows and the tasks
\* they name.
CheckOfflineAgents(caller, d) ==
    /\ IF HasAllColumns
       THEN LET stale == Stale(waiting, now, d)
                named == {r.current_task_id : r \in stale}
            IN /\ waiting' = {IF r \in stale THEN MarkedOffline(r, now) ELSE r :
                                 r \in waiting}
               /\ tasks' = {IF Some(r.id) \in named /\ r.status = "running"
                            THEN Swept(r, now) ELSE r : r \in tasks}
               /\ ret' = SweepResult(caller, d, stale, tasks')
       ELSE /\ UNCHANGED <<waiting, tasks>>
            /\ ret' = Counted("check_offline_agents", caller, "error", 0)
    /\ UNCHANGED <<pool, conns, rpc, schema, now, messages, issued, sentLog, taskIds, calls,
                   processed, delivered, acked>>

\* The process sitting in wait_for_message is killed: nothing of the call
\* runs any more, the finally block included.
Kill(p) ==
    /\ calls[p].pc = "polling"
    /\ calls' = [calls EXCEPT ![p] = NoCall]
    /\ UNCHANGED <<pool, conns, rpc, schema, now, messages, issued, sentLog, waiting, tasks, taskIds,
                   processed, ret, delivered, acked>>

-----------------------------------------------------------------------------
(* The connection pool.  What runs under the pool's lock is one step; a    *)
(* thread in Condition.wait has released the lock.                         *)

Threads == 1..NumThreads
RECURSIVE SumHeld(_)
SumHeld(ts) ==
    IF ts = {} THEN 0
    ELSE LET t == CHOOSE x \in ts : TRUE IN pool.held[t] + SumHeld(ts \ {t})
HandedOut == SumHeld(Threads)

\* The rest of get_connection after the if: a connection of _pool, or a new
\* one when _pool is empty (whose creation may fail and raise).
Take(t, createOk) ==
    IF pool.free > 0
    THEN [pool EXCEPT !.free = @ - 1, !.in_use = @ + 1,
                      !.held[t] = @ + 1, !.pc[t] = "idle"]
    ELSE IF createOk /\ pool.free + HandedOut < MaxOpen
    THEN [pool EXCEPT !.in_use = @ + 1, !.held[t] = @ + 1, !.pc[t] = "idle"]
    ELSE [pool EXCEPT !.pc[t] = "idle"]

Store == <<schema, now, messages, issued, sentLog, waiting, tasks, taskIds,
           calls, processed, ret, delivered, acked, rpc, conns>>

\* get_connection up to the wait: with _pool empty and _in_use at the
\* maximum the thread waits on the condition, else it takes a connection.
GetConnection(t) ==
    /\ pool.pc[t] = "idle"
    /\ \E createOk \in BOOLEAN :
         pool' = IF pool.free = 0 /\ pool.in_use >= MaxConnections
                 THEN [pool EXCEPT !.pc[t] = "waiting"]
                 ELSE Take(t, createOk)
    /\ UNCHANGED Store

\* _cv.wait returned True: the thread has the lock again and goes on after
\* the if, without testing its condition again.
Resume(t) ==
    /\ pool.pc[t] = "notified"
    /\ \E createOk \in BOOLEAN : pool' = Take(t, createOk)
    /\ UNCHANGED Store

\* _cv.wait returned False after `timeout` seconds: ConnectionError.
WaitExpires(t) ==
    /\ pool.pc[t] = "waiting"
    /\ pool' = [pool EXCEPT !.pc[t] = "idle"]
    /\ UNCHANGED Store

\* return_connection: the probe, the append to _pool (or the close of a
\* dead connection), the decrement, and notify(), which wakes one of the
\* waiting threads if there is one.
ReturnConnection(t, probeOk) ==
    /\ pool.pc[t] = "idle"
    /\ pool.held[t] > 0
    /\ LET back == [pool EXCEPT !.free = IF probeOk THEN @ + 1 ELSE @,
                                !.in_use = @ - 1, !.held[t] = @ - 1]
           sleepers == {w \in Threads : pool.pc[w] = "waiting"}
       IN IF sleepers = {} THEN pool' = back
          ELSE \E w \in sleepers : pool' = [back EXCEPT !.pc[w] = "notified"]
    /\ UNCHANGED Store

\* close_all: the connections of _pool are closed and dropped and _in_use
\* is set to 0, whatever the callers still hold; no thread is notified.
CloseAll ==
    /\ pool' = [pool EXCEPT !.free = 0, !.in_use = 0]
    /\ UNCHANGED Store

-----------------------------------------------------------------------------
(* The dispatcher: process 1 reads stdin line by line and writes one line  *)
(* per line read.  A line is [json, id, method, params, name, uri, args]:  *)
(* json tells whether the text parses and to what, the other fields are    *)
(* the members of the parsed object (Null where the member is absent).     *)

ToolNames ==
    {"send_message", "read_messages", "wait_for_message", "mark_read", "get_status",
     "get_protocol", "create_task", "update_task", "get_tasks", "get_my_tasks",
     "unregister_waiting", "get_waiting_agents", "report_status", "heartbeat",
     "cancel_task", "get_task_details", "get_agent_status", "get_system_stats",
     "check_offline_agents"}
ResourceUris == {"protocol://current"}

\* The methods process_request has a branch for.
SupportedMethods ==
    {"tools/list", "tools/call", "resources/list", "resources/read", "initialize"}

\* handler(**arguments): a TypeError when arguments is no mapping or lacks
\* a parameter that has no default.
Required(name) ==
    CASE name = "send_message" -> {"content"}
      [] name = "heartbeat" -> {"agent_id"}
      [] OTHER -> {}
Binds(name, args) ==
    /\ args.shape = "object"
    /\ \A k \in Required(name) : args[k] # Null

\* Where a line goes: main's json.loads, process_request's branches,
\* call_tool's and read_resource's lookups.  "crash" is an exception that
\* leaves process_request (a .get on something that is no mapping).
Route(line) ==
    IF line.json = "invalid" THEN "parse_error"
    ELSE IF line.json # "object" THEN "crash"
    ELSE CASE line.method = Some("tools/list") -> "tools/list"
           [] line.method = Some("resources/list") -> "resources/list"
           [] line.method = Some("initialize") -> "initialize"
           [] line.method = Some("tools/call") ->
                IF line.params \in {"null", "list"} THEN "crash"
                ELSE IF line.params = "absent" \/ line.name = Null
                        \/ Val(line.name) \notin ToolNames THEN "unknown_tool"
                ELSE IF ~Binds(Val(line.name), line.args) THEN "bad_arguments"
                ELSE "handler"
           [] line.method = Some("resources/read") ->
                IF line.params \in {"null", "list"} THEN "crash"
                ELSE IF line.params = "absent" \/ line.uri = Null
                        \/ Val(line.uri) \notin ResourceUris THEN "unknown_resource"
                ELSE "resource"
           [] OTHER -> "method_not_found"

\* The response to a line that reaches no tool handler.
ImmediateReply(line) ==
    LET route == Route(line)
    IN CASE route = "parse_error" -> ErrorReply(Null, ParseError, FALSE)
         [] route = "crash" -> ErrorReply(Null, InternalError, FALSE)
         [] route = "unknown_tool" -> ErrorReply(line.id, MethodNotFound, FALSE)
         [] route = "method_not_found" -> ErrorReply(line.id, MethodNotFound, FALSE)
         [] route = "unknown_resource" -> ErrorReply(line.id, InvalidParams, FALSE)
         [] route = "bad_arguments" -> ErrorReply(line.id, InternalError, TRUE)
         [] OTHER -> ResultReply(line.id, route)

Reading(line) ==
    /\ calls[1].pc = "idle"
    /\ Len(rpc.lines) < MaxLines

Answered(line, reply) ==
    [lines |-> Append(rpc.lines, line), out |-> Append(rpc.out, reply)]

\* One turn of main's loop on a line that reaches no tool handler.
ServeLine(line) ==
    /\ Reading(line)
    /\ Route(line) # "handler"
    /\ rpc' = Answered(line, ImmediateReply(line))
    /\ UNCHANGED <<pool, conns, schema, now, messages, issued, sentLog, waiting, tasks, taskIds,
                   calls, processed, ret, delivered, acked>>

Default(x, d) == IF x = Null THEN d ELSE Val(x)

\* tools/call of send_message.
CallSendMessage(line, id) ==
    /\ Reading(line)
    /\ Route(line) = "handler"
    /\ line.name = Some("send_message")
    /\ SendMessageCall(id, Default(line.args.sender, "unknown"), Val(line.args.content),
                       Null, Default(line.args.priority, "normal"))
    /\ rpc' = Answered(line, ToolReply(line.id, ret'))

\* tools/call of heartbeat.
CallHeartbeat(line) ==
    /\ Reading(line)
    /\ Route(line) = "handler"
    /\ line.name = Some("heartbeat")
    /\ HeartbeatCall(Val(line.args.agent_id), Null, Null)
    /\ rpc' = Answered(line, ToolReply(line.id, ret'))

\* tools/call of wait_for_message: the line is read, the response is
\* written when the call leaves its loop; no other line is read meanwhile.
CallWait(line) ==
    /\ Reading(line)
    /\ Route(line) = "handler"
    /\ line.name = Some("wait_for_message")
    /\ WaitBegin(1, Default(line.args.client_id, ""), Null, Null,
                 Default(line.args.timeout, 300), "idle", Null, Null, Some(line))
    /\ rpc' = [rpc EXCEPT !.lines = Append(@, line)]

-----------------------------------------------------------------------------
(* Inputs.                                                                 *)

TagA == <<"a">>
TagB == <<"b">>
TagUpperA == <<"A">>

\* "ping"
BodyPing == <<"p", "i", "n", "g">>
\* "task one is done"
BodyDone == <<"t", "a", "s", "k", " ", "o", "n", "e", " ", "i", "s", " ",
              "d", "o", "n", "e">>
\* "the task one is done now"
BodyLong == <<"t", "h", "e", " ">> \o BodyDone \o <<" ", "n", "o", "w">>
\* " report is ready " (white space at both ends)
BodyPadded == <<" ", "r", "e", "p", "o", "r", "t", " ", "i", "s", " ",
                "r", "e", "a", "d", "y", " ">>
\* "see [session:b] for it"
BodyQuoting == <<"s", "e", "e", " ">> \o PrefixLit \o TagB \o
               <<"]", " ", "f", "o", "r", " ", "i", "t">>

Senders == {"alice", "bob"}
Waiters == {"bob", "carol"}
Statuses == {"idle", "working"}
Timeouts == {0, 1}
Limits == {1, 10}

\* The wait protocol and the registry: one sender, one body, fresh session
\* tags, steps of one second.
Next ==
    \/ Tick(1, WaitTicks)
    \/ \E id \in 1..WaitMsgs : SendMessage(id, "alice", BodyDone, Null)
    \/ \E c \in Waiters, id \in 1..WaitMsgs : MarkRead(c, {id})
    \/ RegisterWaiting("bob", "working")
    \/ UnregisterWaiting("bob")
    \/ Heartbeat("bob", Null, Null)
    \/ ReportStatus("bob", "working", Null)
    \/ \E p \in Procs, c \in Waiters, t \in Timeouts :
          WaitEnter(p, c, Null, Null, t, "idle", Null, Null)
    \/ \E p \in Procs : WaitHit(p)
    \/ \E p \in Procs : WaitRaise(p)
    \/ \E p \in Procs : WaitTimeout(p)

Spec == Init /\ [][Next]_vars


-----------------------------------------------------------------------------
(* Properties of the wait protocol and the registry (under Spec).          *)

RowsOf(agent) == {r \in waiting : r.agent_id = agent}
Returns(p) == calls[p].pc = "polling" /\ calls'[p].pc = "idle"

\* C1: when a wait_for_message call made with a client_id returns (hit,
\* timeout or raising), the waiting registry holds no row for that
\* client_id.
C1_NoRowAtReturn ==
    [][\A p \in Procs :
          (Returns(p) /\ calls[p].client_id # "")
             => {r \in waiting' : r.agent_id = calls[p].client_id} = {}]_vars

\* C2: the waiting registry holds at most one row per agent_id, in every
\* reachable state.
C2_OneRowPerAgent ==
    \A r1, r2 \in waiting : r1.agent_id = r2.agent_id => r1 = r2

\* Two overlapping waits of one client_id, registered at different times,
\* with the registry holding that client's row.
C2_Witness ==
    /\ \A p \in Procs : calls[p].pc = "polling"
    /\ \E p, q \in Procs :
         /\ p # q
         /\ calls[p].client_id = calls[q].client_id
         /\ calls[p].start_time # calls[q].start_time
         /\ Cardinality(RowsOf(calls[p].client_id)) = 1

\* C4: delivery is not exclusive: a wait_for_message call that returns
\* takes no row away from the candidates of another call that is polling,
\* so a row one waiter was given is still given to the other.
C4_NonExclusive ==
    [][\A p, q \in Procs :
          (Returns(p) /\ p # q /\ calls[q].pc = "polling" /\ calls'[q] = calls[q])
             => Candidates(messages', calls[q].client_id, calls[q].session,
                           calls[q].last_seen, calls[q].checked_ids)
                = CandidatesOf(q)]_vars

\* One unread row has been returned to two waiters of different client_ids.
C4_Witness ==
    \E m \in messages :
       /\ ~m.read
       /\ \A c \in Waiters :
             [by |-> "wait", to |-> c, id |-> m.id] \in delivered


-----------------------------------------------------------------------------
(* Reading and acknowledging: the broker, the SDK client and the processor *)
(* on one store, one process in wait_for_message, a clock that stands.     *)

-----------------------------------------------------------------------------
(* The dispatcher's runs: lines of every route on stdin of process 1,      *)
(* while a second process sends and the SDK client sends on the same       *)
(* store.                                                                  *)

NoArgs ==
    [shape |-> "object", content |-> Null, sender |-> Null, priority |-> Null,
     agent_id |-> Null, client_id |-> Null, timeout |-> Null]
Req(id, method, params, name, uri, args) ==
    [json |-> "object", id |-> id, method |-> Some(method), params |-> params,
     name |-> name, uri |-> uri, args |-> args]
Unparsed(json) ==
    [json |-> json, id |-> Null, method |-> Null, params |-> "absent",
     name |-> Null, uri |-> Null, args |-> NoArgs]
ToolCall(id, name, args) == Req(id, "tools/call", "object", Some(name), Null, args)

BodyEmpty == << >>
BodyBlank == <<" ", " ">>

PlainLines ==
    {Unparsed("invalid"), Unparsed("scalar"),
     Req(Some(7), "initialize", "absent", Null, Null, NoArgs),
     Req(Null, "tools/list", "list", Null, Null, NoArgs),
     Req(Some(7), "resources/list", "absent", Null, Null, NoArgs),
     Req(Some(7), "resources/read", "object", Null, Some("protocol://current"), NoArgs),
     Req(Some(7), "resources/read", "object", Null, Some("other"), NoArgs),
     Req(Some(7), "resources/read", "null", Null, Null, NoArgs),
     Req(Some(7), "bogus", "absent", Null, Null, NoArgs),
     Req(Some(7), "tools/call", "list", Null, Null, NoArgs),
     Req(Some(7), "tools/call", "absent", Null, Null, NoArgs),
     ToolCall(Some(7), "nope", NoArgs),
     ToolCall(Some(7), "send_message", NoArgs),
     ToolCall(Some(7), "heartbeat", [NoArgs EXCEPT !.shape = "list"])}
SendLines ==
    {ToolCall(Some(7), "send_message",
              [NoArgs EXCEPT !.content = Some(c), !.sender = Some("bob"),
                             !.priority = pr]) :
        c \in {BodyEmpty, BodyBlank, BodyDone}, pr \in {Null, Some("low")}}
HeartbeatLines ==
    {ToolCall(Some(7), "heartbeat", [NoArgs EXCEPT !.agent_id = Some("bob")])}
WaitLines ==
    {ToolCall(Some(7), "wait_for_message",
              [NoArgs EXCEPT !.client_id = Some("bob"), !.timeout = Some(t)]) :
        t \in Timeouts}
Priorities == {"normal", "low"}

NextRpc ==
    \/ Tick(1, WaitTicks)
    \/ \E line \in PlainLines : ServeLine(line)
    \/ \E line \in SendLines, id \in MsgIds : CallSendMessage(line, id)
    \/ \E line \in HeartbeatLines : CallHeartbeat(line)
    \/ \E line \in WaitLines : CallWait(line)
    \/ WaitHit(1)
    \/ WaitRaise(1)
    \/ WaitTimeout(1)
    \/ \E id \in MsgIds : SendMessage(id, "alice", BodyDone, Null)
    \/ \E id \in MsgIds, c \in {BodyBlank, BodyLong}, pr \in Priorities :
          SdkSendCall(id, "carol", c, pr)

SpecRpc == Init /\ [][NextRpc]_vars


NextRead ==
    \/ \E id \in MsgIds, c \in Senders : SendMessage(id, c, BodyDone, Some(TagA))
    \/ \E u \in BOOLEAN, n \in Limits : ReadMessages("bob", u, n, "", Null)
    \/ \E n \in Limits : SdkReadUnread("bob", n)
    \/ GetNewMessages("bob")
    \/ \E ids \in SUBSET MsgIds : MarkRead("bob", ids)
    \/ \E id \in MsgIds : SdkMarkRead("bob", {id})
    \/ \E t \in Timeouts : WaitEnter(1, "bob", Null, Null, t, "idle", Null, Null)
    \/ WaitHit(1)
    \/ WaitRaise(1)
    \/ WaitTimeout(1)

SpecRead == Init /\ [][NextRead]_vars

RetIds == {ret.rows[i].id : i \in 1..Len(ret.rows)}
RetSenders == {ret.rows[i].sender : i \in 1..Len(ret.rows)}
OwnUnread(c) == {m \in messages : ~m.read /\ m.sender = c}

\* C7 as stated: the unread lists returned to a client c by
\* read(unread_only=true), read_unread, get_new_messages and
\* wait_for_message(client_id=c) hold no message sent by c.
C7_ReadExclusion ==
    ret.op \in {"read_unread_only", "sdk_read_unread", "get_new_messages",
                "wait_for_message"}
       => ret.caller \notin RetSenders

\* C7 amended: the lists returned to a client c by the SDK's read_unread, by
\* MessageProcessor.get_new_messages and by wait_for_message(client_id=c)
\* hold no message sent by c; read_messages is not told who calls it and
\* lists the caller's own unread messages with the others.
C7_ExclusionWhereCallerKnown ==
    ret.op \in {"sdk_read_unread", "get_new_messages", "wait_for_message"}
       => ret.caller \notin RetSenders

\* read_unread returned rows to a client that has an unread message of its
\* own in the store.
C7_Witness ==
    /\ ret.op = "sdk_read_unread"
    /\ ret.count > 0
    /\ OwnUnread(ret.caller) # {}

\* C8: once mark_read has updated a message, no operation sets its read
\* flag back to false, and no unread-only read, read_unread,
\* get_new_messages or wait_for_message returns it.
C8_AckIsFinal ==
    [][/\ \A m \in messages, m2 \in messages' :
             (m.read /\ m2.id = m.id) => m2.read
       /\ ret'.op \in {"read_unread_only", "sdk_read_unread", "get_new_messages",
                       "wait_for_message"}
             => {ret'.rows[i].id : i \in 1..Len(ret'.rows)} \cap acked' = {}]_vars

\* An unread-only read that returned a row while another row, acknowledged
\* before, sat in the store.
C8_Witness ==
    /\ ret.op \in {"read_unread_only", "sdk_read_unread"}
    /\ ret.count > 0
    /\ \E m \in messages : m.id \in acked /\ m.read /\ m.sender # ret.caller


-----------------------------------------------------------------------------
(* Retention: short and long bodies, steps of a second and of more than    *)
(* the retention window, one reader, one waiter.                           *)

NextRetention ==
    \/ \E d \in ClockSteps : Tick(d, MaxTicks)
    \/ \E id \in MsgIds, c \in {BodyPing, BodyDone} :
          SendMessage(id, "alice", c, Some(TagA))
    \/ \E u \in BOOLEAN : ReadMessages("carol", u, 10, "", Null)
    \/ \E id \in MsgIds : MarkRead("bob", {id})
    \/ \E t \in Timeouts : WaitEnter(1, "bob", Null, Null, t, "idle", Null, Null)
    \/ WaitHit(1)
    \/ WaitRaise(1)
    \/ WaitTimeout(1)

SpecRetention == Init /\ [][NextRetention]_vars

\* The rows a wait has returned that no mark_read has updated.
Outstanding == {d.id : d \in {x \in delivered : x.by = "wait"}} \ acked

\* C3: wait_for_message changes no read flag, and the row it returned is
\* listed again by every later read(unread_only=true) until mark_read is
\* called on it.
C3_RedeliveredUntilMarked ==
    [][/\ \A p \in Procs : calls'[p] # calls[p] => messages' = messages
       /\ (ret'.op = "read_unread_only" /\ ret'.status = "ok"
             /\ (ret' # ret \/ messages' # messages))
             => Outstanding \subseteq {ret'.rows[i].id : i \in 1..Len(ret'.rows)}]_vars

\* C9: no message is lost before some consumer has received it: a row that
\* no read and no wait has returned yet stays in the store.
C9_NoneLostUnreceived ==
    [][\A m \in messages :
          (\A d \in delivered : d.id # m.id) => m.id \in IdsOf(messages')]_vars

-----------------------------------------------------------------------------
(* The session codec: bodies with white space at the ends and with a       *)
(* bracketed tag inside, tags that differ in case, rows of the SDK.        *)

NextCodec ==
    \/ \E id \in MsgIds, c \in {BodyDone, BodyPadded, BodyQuoting},
          x \in {Some(TagA), Some(TagUpperA)} : SendMessage(id, "alice", c, x)
    \/ \E id \in MsgIds : SdkSend(id, "alice", BodyLong)
    \/ \E x \in {Null, Some(TagA), Some(TagB)} : ReadMessages("bob", FALSE, 10, "", x)
    \/ \E x \in {Some(TagA), Some(TagB)}, t \in Timeouts :
          WaitEnter(1, "bob", x, Null, t, "idle", Null, Null)
    \/ WaitHit(1)
    \/ WaitRaise(1)
    \/ WaitTimeout(1)

SpecCodec == Init /\ [][NextCodec]_vars

DecodingOps == {"read_messages", "read_unread_only", "wait_for_message"}

\* C5: a message sent with session a is never returned by read_messages or
\* wait_for_message called with a session filter b # a, whatever its body.
C5_FilterIsolation ==
    (ret.op \in DecodingOps /\ Truthy(ret.filter))
       => \A id \in RetIds : sentLog[id].session = ret.filter

\* C6: a row sent with a session tag reads back (read_messages,
\* wait_for_message) with exactly the content sent and exactly that tag; a
\* row stored without the prefix reads back with no tag and its content.
C6_RoundTrip ==
    ret.op \in DecodingOps
       => \A i \in 1..Len(ret.rows) :
             LET v == ret.rows[i]
                 sent == sentLog[v.id]
             IN /\ v.content = sent.content
                /\ v.session_id = sent.session

-----------------------------------------------------------------------------
(* Tasks: one task, both update_task implementations, the registry calls   *)
(* that write tasks.                                                       *)

Outcome == <<"o", "k">>

\* The progress values callers pass: a later report below an earlier one,
\* and one above 100.
Progresses == {20, 50, 150}

NextTask ==
    \/ Tick(1, MaxTicks)
    \/ \E id \in TaskIds : CreateTask(id, "bob", "alice")
    \/ \E id \in TaskIds, st \in {Null} \cup {Some(x) : x \in TaskStatuses},
          res \in {Null, Some(Outcome)} : UpdateTask("bob", id, st, res)
    \/ \E id \in TaskIds, st \in {Null} \cup {Some(x) : x \in TaskStatuses},
          res \in {Null, Some(Outcome)} : SdkUpdateTask("bob", id, st, res)
    \/ RegisterWaiting("bob", "idle")
    \/ \E id \in TaskIds, st \in Statuses : ReportStatus("bob", st, Some(id))
    \/ \E id \in TaskIds, pr \in Progresses : Heartbeat("bob", Some(id), Some(pr))
    \/ Heartbeat("bob", Null, Null)
    \/ \E id \in TaskIds, pr \in Progresses :
          WaitEnter(1, "bob", Null, Null, 0, "working", Some(id), Some(pr))
    \/ WaitTimeout(1)
    \/ \E id \in TaskIds : CancelTask("alice", id)
    \/ CheckOfflineAgents("alice", 0)

SpecTask == Init /\ [][NextTask]_vars

Terminal == {"completed", "failed"}

\* C10: once a task is completed or failed its completed_at is set, and no
\* update_task call after that changes its status.
C10_Terminality ==
    [][\A r \in tasks :
          r.status \in Terminal
             => /\ r.completed_at # Null
                /\ ret'.op \in {"update_task", "sdk_update_task"}
                      => \A r2 \in tasks' : r2.id = r.id => r2.status = r.status]_vars


\* C11: in every reachable state a task's completed_at is set if and only
\* if its status is completed or failed.
C11_StampedIffTerminal ==
    \A r \in tasks : (r.completed_at # Null) <=> (r.status \in Terminal)

Edges ==
    {<<"pending", "running">>, <<"running", "completed">>, <<"running", "failed">>,
     <<"pending", "failed">>}

\* C12: every change of a task's status, by any operation, follows an edge
\* of pending -> running -> completed|failed, pending|running -> failed.
C12_StatusFollowsDag ==
    [][\A r \in tasks, r2 \in tasks' :
          (r2.id = r.id /\ r2.status # r.status)
             => <<r.status, r2.status>> \in Edges]_vars


-----------------------------------------------------------------------------
(* The sweeper: a worker that registers a task through wait_for_message    *)
(* and is killed or returns, an idle waiter, heartbeats, sweeps with two   *)
(* deadlines.                                                              *)

Deadlines == {0, 1}

NextSweep ==
    \/ Tick(1, SweepTicks)
    \/ \E id \in TaskIds : CreateTask(id, "bob", "alice")
    \/ \E id \in TaskIds, st \in {"running", "completed"} :
          UpdateTask("bob", id, Some(st), Null)
    \/ \E id \in TaskIds : WaitEnter(1, "bob", Null, Null, 1, "working", Some(id), Null)
    \/ WaitEnter(2, "carol", Null, Null, 1, "idle", Null, Null)
    \/ \E p \in Procs : WaitTimeout(p)
    \/ \E p \in Procs : Kill(p)
    \/ \E id \in TaskIds : Heartbeat("bob", Some(id), Null)
    \/ RegisterWaiting("bob", "working")
    \/ \E d \in Deadlines : CheckOfflineAgents("alice", d)

SpecSweep == Init /\ [][NextSweep]_vars

\* The tasks named by the stale rows of a sweep with deadline d.
NamedByStale(d) == {r.current_task_id : r \in Stale(waiting, now, d)}

\* C13 as stated: after check_offline_agents(d) every record whose heartbeat
\* age exceeded d is offline with last_disconnect set, and every unfinished
\* task such a record names - the task a killed worker registered through
\* wait_for_message(task_id=T, status=working) - is failed, with the
\* agent-offline message and completed_at set.
C13_SweeperFailsRegisteredTask ==
    [][\A d \in Deadlines :
          (HasAllColumns /\ CheckOfflineAgents("alice", d))
             => /\ \A r \in Stale(waiting, now, d) : MarkedOffline(r, now) \in waiting'
                /\ \A r \in tasks :
                      (Some(r.id) \in NamedByStale(d) /\ r.status \notin Terminal)
                         => \E r2 \in tasks' :
                               /\ r2.id = r.id
                               /\ r2.status = "failed"
                               /\ r2.error_message = Some("offline")
                               /\ r2.completed_at = Some(now)]_vars

\* C13 amended: after check_offline_agents(d) every record whose heartbeat
\* age exceeded d is offline with last_disconnect = now, and every task
\* that was running and is the current task of such a record is failed with
\* the agent-offline message and completed_at = now; a registered task that
\* was not running keeps its status.
C13_SweeperFailsRunningTask ==
    [][\A d \in Deadlines :
          (HasAllColumns /\ CheckOfflineAgents("alice", d))
             => /\ \A r \in Stale(waiting, now, d) :
                      \E r2 \in waiting' :
                         /\ r2.agent_id = r.agent_id
                         /\ ~r2.is_online
                         /\ r2.last_disconnect = Some(now)
                /\ \A r \in tasks :
                      \E r2 \in tasks' :
                         /\ r2.id = r.id
                         /\ IF Some(r.id) \in NamedByStale(d) /\ r.status = "running"
                            THEN /\ r2.status = "failed"
                                 /\ r2.error_message = Some("offline")
                                 /\ r2.completed_at = Some(now)
                            ELSE r2.status = r.status]_vars

\* A sweep has just failed the running task of a killed worker: the worker's
\* record is offline, no call of it is in progress, an idle waiter is online.
C13_Witness ==
    /\ ret.op = "check_offline_agents"
    /\ ret.count > 0
    /\ calls[1].pc = "idle"
    /\ \E r \in waiting, k \in tasks :
          /\ r.agent_id = "bob" /\ ~r.is_online /\ r.status = "working"
          /\ r.current_task_id = Some(k.id)
          /\ k.status = "failed" /\ k.error_message = Some("offline")
          /\ k.completed_at = r.last_disconnect
    /\ \E r \in waiting : r.agent_id = "carol" /\ r.is_online


\* C14: for every agent_id the heartbeat stored in its waiting record never
\* decreases and never goes back to unset, whatever heartbeat,
\* register_waiting, report_status and wait_for_message registrations run.
C14_HeartbeatMonotone ==
    [][\A r \in waiting, r2 \in waiting' :
          (r2.agent_id = r.agent_id /\ r.heartbeat # Null)
             => /\ r2.heartbeat # Null
                /\ Val(r2.heartbeat) >= Val(r.heartbeat)]_vars

-----------------------------------------------------------------------------
(* Properties of the dispatcher (under SpecRpc).                           *)

\* C15: every wait_for_message call returns a hit or the timeout result; it
\* returns the timeout result only when at least `timeout` seconds have
\* passed since entry, and a timeout result reaches the dispatcher's output
\* as a JSON-RPC result, never as an error.
C15_WaitReturnsHitOrTimeout ==
    [][\A p \in Procs : Returns(p) =>
          /\ ret'.status \in {"hit", "timeout"}
          /\ ret'.status = "timeout" =>
                /\ now - calls[p].start_time >= calls[p].timeout
                /\ calls[p].request # Null =>
                      /\ rpc'.out # rpc.out
                      /\ rpc'.out[Len(rpc'.out)].kind = "result"]_vars

\* The line answered by the step that writes a response, and the response.
AnsweredLine == rpc'.lines[Len(rpc'.out)]
Written == rpc'.out[Len(rpc'.out)]
Writes == Len(rpc'.out) > Len(rpc.out)
HandlerRaised ==
    \/ Route(AnsweredLine) = "bad_arguments"
    \/ Route(AnsweredLine) = "handler" /\ ret'.status \in {"raised", "error"}

\* C17: a line that is not valid JSON is answered with error -32700, a
\* request whose method is not supported with -32601, a tools/call whose
\* handler raises with -32603; after the response the dispatcher is back
\* at reading lines, with no line left unanswered.
C17_ErrorCodes ==
    [][Writes =>
          /\ AnsweredLine.json = "invalid" =>
                Written.kind = "error" /\ Written.code = ParseError
          /\ (AnsweredLine.json = "object"
                /\ \A m \in SupportedMethods : AnsweredLine.method # Some(m)) =>
                Written.kind = "error" /\ Written.code = MethodNotFound
          /\ HandlerRaised =>
                Written.kind = "error" /\ Written.code = InternalError
          /\ calls'[1].pc = "idle"
          /\ Len(rpc'.out) = Len(rpc'.lines)]_vars

\* A handler raised on the first line (a heartbeat on a store without the
\* heartbeat column), was answered with -32603, and the second line, which
\* does not parse, was read and answered with -32700.
C17_Witness ==
    /\ Len(rpc.out) = 2
    /\ rpc.lines[1] \in HeartbeatLines
    /\ rpc.out[1].raised /\ rpc.out[1].code = InternalError
    /\ rpc.lines[2].json = "invalid"
    /\ rpc.out[2].code = ParseError

\* C18: the dispatcher writes one response per line read, in the order of
\* the lines (at most the line of a wait_for_message in progress is yet
\* unanswered), and the response to a line that parses as a request object
\* carries that request's id, whatever the shape of params.
C18_OneResponseCarryingId ==
    /\ Len(rpc.out) <= Len(rpc.lines)
    /\ Len(rpc.lines) - Len(rpc.out) <= (IF calls[1].pc = "polling" THEN 1 ELSE 0)
    /\ \A i \in 1..Len(rpc.out) :
          rpc.lines[i].json = "object" => rpc.out[i].id = rpc.lines[i].id

\* C19: a send with empty or white-space-only content, or with a priority
\* outside {normal, high, urgent}, inserts no row and is rejected: by the
\* SDK's send with a validation error, by the broker's send_message tool
\* with an error response of code -32602.
C19_InvalidSendRejected ==
    [][/\ (ret'.op = "sdk_send" /\ ret' # ret /\ ret'.status = "ok") =>
             \A m \in messages' \ messages :
                ~IsBlank(m.content) /\ m.priority \in ValidPriorities
       /\ (Writes /\ AnsweredLine \in SendLines
             /\ (IsBlank(Val(AnsweredLine.args.content))
                   \/ Default(AnsweredLine.args.priority, "normal") \notin ValidPriorities)) =>
             /\ messages' = messages
             /\ Written.kind = "error" /\ Written.code = InvalidParams]_vars

-----------------------------------------------------------------------------
(* Properties of the poll's selection (under SpecCodec).                   *)

\* What the poll of call c may return of row m, the session being the one
\* the row was sent with.
Eligible(c, m) ==
    /\ ~m.read
    /\ c.client_id # "" => m.sender # c.client_id
    /\ c.last_seen # Null => m.timestamp > Val(c.last_seen)
    /\ Truthy(c.session) => sentLog[m.id].session = c.session

\* C16: a message returned by wait_for_message(client_id, session,
\* last_seen) was unread at the poll, was not sent by client_id, is later
\* than last_seen if given, was sent with the session of the filter if one
\* was given, and no row with these properties has a smaller timestamp.
C16_HitIsEarliestEligible ==
    [][\A p \in Procs : (Returns(p) /\ ret'.status = "hit") =>
          LET m == RowOf(messages, ret'.rows[1].id)
          IN /\ Eligible(calls[p], m)
             /\ \A o \in messages : Eligible(calls[p], o) => m.timestamp <= o.timestamp]_vars

-----------------------------------------------------------------------------
(* The SDK client's batches: batches of every shape in both modes, store   *)
(* faults at any element, single sends on the pooled connection between.   *)

MaxBatch == 2

Elem(content) == [kind |-> "mapping", content |-> content]
NotMapping == [kind |-> "other", content |-> Null]
Elems == {Elem(Some(BodyLong)), Elem(Some(BodyDone)), Elem(Some(BodyBlank)),
          Elem(Null), NotMapping}
Batches == UNION {[1..n -> Elems] : n \in 0..MaxBatch}
IdSeqs == UNION {[1..n -> MsgIds] : n \in 0..MaxBatch}

NextBatch ==
    \/ Tick(1, MaxTicks)
    \/ \E ids \in IdSeqs, batch \in Batches, pooled \in BOOLEAN, faultAt \in 0..MaxBatch :
          SdkSendBatch(ids, "carol", batch, pooled, faultAt)
    \/ \E id \in MsgIds : SdkSendCall(id, "carol", BodyLong, "normal")
    \/ Collect

SpecBatch == Init /\ [][NextBatch]_vars

AfterBatch == ret.op = "sdk_send_batch"

\* C20: send_batch is all-or-nothing.  No row of a batch that failed (an
\* element that is no mapping, has no or empty content, or a store failure
\* part-way) is in the table afterwards, in pooled mode also after a later
\* committed operation on the same connection; a batch with an invalid
\* element fails; a batch that succeeds has every element in the table and
\* returns the ids in the order of the elements.
C20_BatchAllOrNothing ==
    /\ \A m \in messages, f \in conns.failed : m.id # f.id
    /\ (AfterBatch /\ \E k \in 1..Len(conns.asked) : ~ElemOk(conns.asked[k]))
          => ret.status = "error"
    /\ (AfterBatch /\ ret.status = "ok") =>
          /\ Len(ret.rows) = Len(conns.asked)
          /\ \A i \in 1..Len(ret.rows) :
                /\ \E m \in messages :
                      m.id = ret.rows[i].id /\ m.content = Val(conns.asked[i].content)
                /\ \A j \in 1..Len(ret.rows) : i # j => ret.rows[i].id # ret.rows[j].id

\* A pooled batch failed after inserting a row, and a later send on the
\* pooled connection has committed.
C20_Witness ==
    /\ \E f \in conns.failed : f.pooled
    /\ ret.op = "sdk_send" /\ ret.status = "ok"
    /\ messages # {}

-----------------------------------------------------------------------------
(* Properties of acknowledgement (under SpecRead).                         *)

\* C21: mark_read(ids) sets read on exactly the rows whose id is in ids,
\* changes no other row and no other attribute, adds and removes no row,
\* and returns the number of rows whose id is in ids; ids of no row count
\* zero, so a call with only such ids returns 0 and changes nothing.
C21_MarkReadExact ==
    [][\A ids \in SUBSET MsgIds : MarkRead("bob", ids) =>
          /\ IdsOf(messages') = IdsOf(messages)
          /\ Cardinality(messages') = Cardinality(messages)
          /\ \A m \in messages :
                LET m2 == RowOf(messages', m.id)
                IN /\ m2.read = (m.read \/ m.id \in ids)
                   /\ [m2 EXCEPT !.read = m.read] = m
          /\ ret'.count = Cardinality({m \in messages : m.id \in ids})
          /\ (\A m \in messages : m.id \notin ids) =>
                ret'.count = 0 /\ messages' = messages
          /\ UNCHANGED <<waiting, tasks>>]_vars

\* A mark_read that named one of two rows: it counted one, and the row it
\* did not name is still unread.
C21_Witness ==
    /\ ret.op = "mark_read" /\ ret.count = 1
    /\ Cardinality(messages) = 2
    /\ \E m \in messages : m.read /\ m.id \in acked
    /\ \E m \in messages : ~m.read

-----------------------------------------------------------------------------
(* The connection pool's runs: threads that get and return connections in  *)
(* any interleaving.                                                       *)

NextPool ==
    \/ \E t \in Threads : GetConnection(t)
    \/ \E t \in Threads : Resume(t)
    \/ \E t \in Threads : WaitExpires(t)
    \/ \E t \in Threads, probeOk \in BOOLEAN : ReturnConnection(t, probeOk)

SpecPool == Init /\ [][NextPool]_vars

\* C22: the number of connections handed out and not yet returned never
\* exceeds max_connections.
C22_HandedOutBounded == HandedOut <= MaxConnections

-----------------------------------------------------------------------------
(* Properties of cancellation (under SpecTask).                            *)

WasCancelled(r) == r.status = "failed" /\ r.error_message = Some("cancelled")

\* C23: on a store that has the columns, cancel_task on an existing task,
\* whatever its status, leaves it failed with the cancellation message and
\* completed_at set; a task that a cancel_task has left so is left exactly
\* as it is by a second cancel_task, at any later time; on an unknown id
\* cancelled is false and no task changes.
C23_CancelIdempotent ==
    [][\A id \in TaskIds : (HasAllColumns /\ CancelTask("alice", id)) =>
          /\ \A r \in tasks : r.id = id =>
                \E r2 \in tasks' :
                   /\ r2.id = id /\ WasCancelled(r2) /\ r2.completed_at # Null
                   /\ WasCancelled(r) => r2 = r
          /\ (\A r \in tasks : r.id # id) => ret'.count = 0 /\ tasks' = tasks]_vars

-----------------------------------------------------------------------------
(* Properties of repeated sweeps (under SpecSweep).                        *)

\* The rows that the sweep whose response is in ret marked, and that are
\* still as that sweep left them.
LeftBySweep ==
    {r \in waiting :
        /\ r.agent_id \in ret.offline_agents
        /\ ~r.is_online /\ r.last_disconnect = Some(ret.timestamp)}

\* C24: a second check_offline_agents with the same timeout_seconds, with
\* no operation between the two, changes no waiting record that the first
\* one marked and no task such a record names.
C24_SweepIdempotent ==
    [][\A d \in Deadlines :
          (/\ ret.op = "check_offline_agents" /\ ret.status = "ok"
           /\ ret.timeout_seconds = d
           /\ CheckOfflineAgents("alice", d)) =>
             \A r \in LeftBySweep :
                /\ r \in waiting'
                /\ \A k \in tasks : Some(k.id) = r.current_task_id => k \in tasks']_vars

-----------------------------------------------------------------------------
(* Properties of the wait loop's error handling (under Spec).              *)

\* C25: a store error in one poll of wait_for_message does not end the
\* call: no call leaves its loop with the error, the call goes on polling.
C25_PollErrorSwallowed ==
    [][\A p \in Procs :
          (calls[p].pc = "polling" /\ calls'[p].pc = "idle") =>
             ~(ret'.op = "wait_for_message" /\ ret'.status = "raised")]_vars

\* C26: after register_waiting(agent_id) on a store that has the columns,
\* the record of agent_id has waiting_since = heartbeat = now and is
\* online, whatever record the agent had before.
C26_RegisterStampsHeartbeat ==
    [][(HasAllColumns /\ RegisterWaiting("bob", "working")) =>
          /\ RowsOf("bob")' # {}
          /\ \A r \in RowsOf("bob")' :
                /\ r.waiting_since = now
                /\ r.heartbeat = Some(now)
                /\ r.is_online]_vars

-----------------------------------------------------------------------------
(* Properties of the store the broker creates (under SpecTask).            *)

\* C27: on a store created by the broker's startup, register_waiting,
\* heartbeat, cancel_task, update_task and check_offline_agents complete
\* without a storage error.
C27_StartupSchemaComplete ==
    schema = "startup" =>
       ~(/\ ret.op \in {"register_waiting", "heartbeat", "cancel_task", "update_task",
                         "check_offline_agents"}
         /\ ret.status = "error")

-----------------------------------------------------------------------------
(* Properties of the duplicates rule (under SpecRetention).                *)

\* The rows that are neither too short nor too old for the pass at `now`.
Keepable ==
    {m \in messages : Len(m.content) >= LengthFloor
                      /\ m.timestamp >= now - RetentionSecs}
Twins(m) == {o \in Keepable : o.content = m.content /\ o.sender = m.sender}

\* C28: of the rows with equal (content, sender) that are neither too short
\* nor too old, the retention pass keeps exactly one, and it is one with
\* the greatest timestamp, whatever the ids.
C28_KeepsMostRecent ==
    [][(ret'.op \in {"read_messages", "read_unread_only"} /\ messages' # messages) =>
          \A m \in Keepable :
             /\ Cardinality(Twins(m) \cap messages') = 1
             /\ \A k \in Twins(m) \cap messages', o \in Twins(m) :
                   o.timestamp <= k.timestamp]_vars

\* C29: an existing message row changes only by its read flag going from
\* false to true in a mark_read, and by its removal in a retention pass;
\* its id, sender, content, timestamp and priority never change.
C29_RowsImmutable ==
    [][\A m \in messages :
          IF m.id \in IdsOf(messages')
          THEN LET m2 == RowOf(messages', m.id)
               IN /\ [m2 EXCEPT !.read = m.read] = m
                  /\ m2.read # m.read => (~m.read /\ ret'.op = "mark_read")
          ELSE ret'.op \in {"read_messages", "read_unread_only"}]_vars

\* A row was removed by a retention pass, and a row that a mark_read has
\* updated is in the table, with what it was sent with.
C29_Witness ==
    /\ issued \ IdsOf(messages) # {}
    /\ \E m \in messages :
          /\ m.read /\ m.id \in acked
          /\ m.sender = sentLog[m.id].sender
          /\ Decode(m.content).content = sentLog[m.id].content

-----------------------------------------------------------------------------
(* Properties of overlapping waits (under Spec).                           *)

\* C30: while a wait_for_message call for client_id c is in progress and
\* registered, the registry keeps a row for c, also when another
\* wait_for_message call returns.
C30_RegisteredWhileWaiting ==
    [][\A p, q \in Procs :
          (/\ p # q /\ Returns(q)
           /\ calls[p].pc = "polling" /\ calls[p].client_id # ""
           /\ RowsOf(calls[p].client_id) # {}) =>
             \E r \in waiting' : r.agent_id = calls[p].client_id]_vars

\* C31: every task's progress stays within 0..100, and no step lowers the
\* progress of a task that is running before and after the step.
C31_ProgressBoundedMonotone ==
    [][\A r2 \in tasks' :
          /\ r2.progress \in 0..100
          /\ \A r \in tasks :
                (r.id = r2.id /\ r.status = "running" /\ r2.status = "running")
                   => r2.progress >= r.progress]_vars

\* C32: heartbeat without task_id changes nothing but the heartbeat column
\* of the agent's waiting rows: every row keeps its other columns, no row
\* appears or disappears, no task row changes.
C32_BareHeartbeatFrame ==
    [][Heartbeat("bob", Null, Null)
          => /\ tasks' = tasks
             /\ {r.id : r \in waiting'} = {r.id : r \in waiting}
             /\ \A r \in waiting : \E r2 \in waiting' :
                   r2 = [r EXCEPT !.heartbeat = r2.heartbeat]]_vars

\* C33: check_offline_agents leaves every task's assigned_to as it was,
\* creates and deletes no task, deletes no waiting record; the list it
\* returns holds exactly the tasks that are pending or failed after its
\* updates, the tasks it has just failed among them.
C33_SweepFrameAndList ==
    [][\A d \in Deadlines :
          CheckOfflineAgents("alice", d)
             => /\ {<<r.id, r.assigned_to>> : r \in tasks'} =
                   {<<r.id, r.assigned_to>> : r \in tasks}
                /\ {r.id : r \in waiting} \subseteq {r.id : r \in waiting'}
                /\ ret'.status = "ok"
                      => /\ ret'.unassigned_tasks =
                               {r.id : r \in {x \in tasks' :
                                                 x.status \in {"pending", "failed"}}}
                         /\ \A r \in tasks, r2 \in tasks' :
                               (r2.id = r.id /\ r.status = "running"
                                   /\ r2.status = "failed")
                                  => r2.id \in ret'.unassigned_tasks]_vars

\* A sweep has just failed the running task of a stale agent and returned
\* it in its list.
C33_Witness ==
    /\ ret.op = "check_offline_agents"
    /\ ret.status = "ok"
    /\ ret.offline_agents # {}
    /\ \E r \in tasks :
          /\ r.status = "failed"
          /\ r.error_message = Some("offline")
          /\ r.completed_at = Some(ret.timestamp)
          /\ r.id \in ret.unassigned_tasks

-----------------------------------------------------------------------------
(* One sender, one consumer: the sender's calls follow one another, so the  *)
(* messages are numbered in the order of their send calls; the consumer     *)
(* lists the unread messages, waits and marks.                              *)

OrderMsgs == 3
OrderTicks == 1

NextOrder ==
    \/ Tick(1, OrderTicks)
    \/ \E id \in 1..OrderMsgs :
          id = Cardinality(issued) + 1 /\ SendMessage(id, "alice", BodyDone, Null)
    \/ ReadMessages("bob", TRUE, 10, "", Null)
    \/ WaitEnter(1, "bob", Null, Null, 1, "idle", Null, Null)
    \/ WaitHit(1)
    \/ WaitTimeout(1)
    \/ \E id \in 1..OrderMsgs : MarkRead("bob", {id})

SpecOrder == Init /\ [][NextOrder]_vars

\* C34: what read_messages lists of one sender is in the order of the
\* sender's send calls, read from one end of the list or from the other,
\* whatever the seconds the messages were inserted in.
C34_ListedInSendOrder ==
    ret.op \in {"read_messages", "read_unread_only"}
       => LET q == ret.rows
              pairs == {<<i, j>> \in (1..Len(q)) \X (1..Len(q)) :
                           i < j /\ q[i].sender = q[j].sender}
          IN \/ \A ij \in pairs : q[ij[1]].id > q[ij[2]].id
             \/ \A ij \in pairs : q[ij[1]].id < q[ij[2]].id

\* C35: a read_messages call either raises and leaves the messages as they
\* were, or leaves no message whose stored content is shorter than 20
\* characters, no two messages of one content and sender, no message older
\* than an hour, and every message that was none of these as it was;
\* wait_for_message deletes and changes no message.
C35_RetentionPass ==
    [][/\ \A u \in BOOLEAN :
            ReadMessages("carol", u, 10, "", Null)
               => \/ ret'.status = "raised" /\ messages' = messages
                  \/ /\ ret'.status = "ok"
                     /\ messages' \subseteq messages
                     /\ \A m \in messages' :
                           /\ Len(m.content) >= LengthFloor
                           /\ now - m.timestamp <= RetentionSecs
                           /\ \A o \in messages' :
                                 (o.content = m.content /\ o.sender = m.sender) => o = m
                     /\ \A m \in messages :
                           (/\ Len(m.content) >= LengthFloor
                            /\ now - m.timestamp <= RetentionSecs
                            /\ \A o \in messages :
                                  (o.content = m.content /\ o.sender = m.sender) => o = m)
                              => m \in messages'
       /\ \A p \in Procs : calls'[p] # calls[p] => messages' = messages]_vars

\* A read has returned a message that the retention pass kept, and a
\* message that was sent is no longer in the store.
C35_Witness ==
    /\ ret.op \in {"read_messages", "read_unread_only"}
    /\ ret.status = "ok"
    /\ ret.count > 0
    /\ \E id \in issued : id \notin IdsOf(messages)

\* C36: a wait_for_message call does not return the timeout result while
\* the store holds a candidate of the call that was inserted before the
\* call was entered or before its deadline, whatever the timeout is.
C36_NoTimeoutOverCandidate ==
    [][\A p \in Procs :
          WaitTimeout(p)
             => ~\E m \in CandidatesOf(p) :
                   \/ m.timestamp < calls[p].start_time
                   \/ m.timestamp < calls[p].start_time + calls[p].timeout]_vars

-----------------------------------------------------------------------------
(* A consumer that passes as last_seen the timestamp of the message it     *)
(* received last, and nothing on its first call.                           *)

\* The rows wait_for_message has returned to client.
ReceivedBy(client) ==
    {m \in messages : \E d \in delivered : d.by = "wait" /\ d.to = client /\ d.id = m.id}

\* The timestamp of the last of them: hits come in timestamp order.
LastSeen(client) ==
    IF ReceivedBy(client) = {} THEN Null
    ELSE Some(CHOOSE t \in {m.timestamp : m \in ReceivedBy(client)} :
                 \A m \in ReceivedBy(client) : m.timestamp <= t)

NextSeen ==
    \/ Tick(1, MaxTicks)
    \/ \E id \in MsgIds : SendMessage(id, "alice", BodyDone, Null)
    \/ WaitEnter(1, "bob", Null, LastSeen("bob"), 1, "idle", Null, Null)
    \/ WaitHit(1)
    \/ WaitTimeout(1)
    \/ \E id \in MsgIds : MarkRead("bob", {id})

SpecSeen == Init /\ [][NextSeen]_vars

\* C37: while the consumer sits in a wait entered with the timestamp of the
\* message it received last, every unread message of another sender that
\* it has not received yet passes the call's last_seen test.
C37_NoneBehindLastSeen ==
    \A p \in Procs :
       (calls[p].pc = "polling" /\ calls[p].last_seen # Null)
          => \A m \in messages :
                (~m.read /\ m.sender # calls[p].client_id
                    /\ m \notin ReceivedBy(calls[p].client_id))
                   => m.timestamp > Val(calls[p].last_seen)

-----------------------------------------------------------------------------
(* Liveness of the sweeper: a worker that takes a task, waits with it and  *)
(* returns or is killed; the clock runs on after the worker's last call,   *)
(* and check_offline_agents is called again and again.                     *)

\* The calls of the worker, each made while the clock can still advance.
WorkerStep ==
    /\ TicksUsed < SweepTicks
    /\ \/ \E id \in TaskIds : UpdateTask("bob", id, Some("running"), Null)
       \/ \E id \in TaskIds :
             WaitEnter(1, "bob", Null, Null, 1, "working", Some(id), Null)

NextLive ==
    \/ Tick(1, SweepTicks)
    \/ \E id \in TaskIds : CreateTask(id, "bob", "alice")
    \/ WorkerStep
    \/ WaitTimeout(1)
    \/ Kill(1)
    \/ CheckOfflineAgents("alice", 0)

SpecLive ==
    /\ Init
    /\ [][NextLive]_vars
    /\ WF_vars(Tick(1, SweepTicks))
    /\ WF_vars(CheckOfflineAgents("alice", 0))

\* C38: on a store that has the columns, once the worker makes no call any
\* more and no call of it returns any more, the sweeps leave no task
\* running for ever.
C38_DeadWorkersTaskFails ==
    (HasAllColumns /\ <>[][~(WorkerStep \/ WaitTimeout(1))]_vars)
       => <>[](\A r \in tasks : r.status # "running")

\* C39: a waiting record that is offline has a heartbeat older than the
\* sweep that marked it; after a heartbeat call of the agent that the
\* store accepted, and after a registration through register_waiting or
\* wait_for_message that wrote the record, the agent's record is online.
C39_OnlineAfterHeartbeat ==
    [][/\ \A r \in waiting' :
            ~r.is_online
               => /\ r.heartbeat # Null /\ r.last_disconnect # Null
                  /\ Val(r.heartbeat) < Val(r.last_disconnect)
       /\ (\/ /\ \E id \in TaskIds : Heartbeat("bob", Some(id), Null)
               /\ ret'.status = "ok"
            \/ /\ RegisterWaiting("bob", "working")
               /\ ret'.status = "ok"
            \/ /\ \E id \in TaskIds :
                     WaitEnter(1, "bob", Null, Null, 1, "working", Some(id), Null)
               /\ waiting' # waiting)
             => \A r \in waiting' : r.agent_id = "bob" => r.is_online]_vars

\* The pool with close_all called at any moment.
NextPoolClosing ==
    \/ NextPool
    \/ CloseAll

SpecPoolClosing == Init /\ [][NextPoolClosing]_vars

\* C40: after every step of the pool the in_use counter is the number of
\* connections handed out and not yet returned, it is not negative, and
\* the idle connections and in_use together do not exceed max_connections;
\* a return whose probe fails adds no connection to the pool.
C40_PoolAccounting ==
    [][/\ pool'.in_use = HandedOut'
       /\ pool'.in_use >= 0
       /\ pool'.free + pool'.in_use <= MaxConnections
       /\ \A t \in Threads : ReturnConnection(t, FALSE) => pool'.free = pool.free]_vars

=============================================================================
